---- MODULE Spec2Model ----
(***************************************************************************)
(* Model of the job-progress polling code of the certificate event detail  *)
(* page (static/js/certificado/evento_detail.js): the adaptive bulk poller *)
(* startPolling / checkProgress, the fixed-rate poller                     *)
(* startIndividualPolling / checkStatus, the interval timers they share    *)
(* through the global handle pollInterval, and the page reload they        *)
(* schedule on completion.                                                 *)
(*                                                                         *)
(* The browser event loop is modelled by interleaving: every action is one *)
(* macrotask (a click handler's continuation, a timer callback, a fetch    *)
(* continuation) and runs to completion.  Time is not modelled: a live     *)
(* interval timer may fire at any moment, an in-flight request may resolve *)
(* at any moment and in any order.                                         *)
(***************************************************************************)
EXTENDS Integers, Sequences, FiniteSets, TLC

(***************************************************************************)
(* Bounds of the exploration.                                              *)
(***************************************************************************)
\* requests issued during one page life (SpecLadder)
MaxPolls == 12
\* requests issued during one page life (Spec, SpecRestart)
WidePolls == 3
\* requests issued during one page life (SpecLive, SpecSessions, SpecOverlap)
LivePolls == 6
\* requests simultaneously in flight
MaxInflight == 2
\* calls of startPolling / startIndividualPolling during one page life
MaxStarts == 2
\* distinct state_hash values the server can report
NumHashes == 2
\* largest progress value the server reports
MaxPercent == 1
\* callback counters stop counting here ("CountCap or more")
CountCap == 2
\* most forms the server renders into the variant formset
MaxExisting == 2
\* most 'add variant' clicks
MaxAdds == 3
\* most clicks on the QR toggle
MaxToggles == 4

(***************************************************************************)
(* Program constants.                                                      *)
(***************************************************************************)
\* currentPollInterval = 1000 (initial and after a change)
FastInterval == 1000
\* newInterval after 3 polls without change
Interval3 == 2000
\* newInterval after 5 polls without change
Interval5 == 3000
\* newInterval after 10 polls without change
Interval10 == 5000
\* noChangeCount thresholds of the backoff
Threshold3 == 3
Threshold5 == 5
Threshold10 == 10
\* period of the individual poller
IndividualInterval == 2000

\* JavaScript null (the handle before any setInterval, the hash before any poll)
NULL == 0

Hashes == 1..NumHashes
Percents == 0..MaxPercent
Runs == 1..MaxStarts
BulkStatuses == {"processing", "completed", "failed"}
TerminalStatuses == {"completed", "failed"}

VARIABLES
    page,                 \* "loading" | "ready" | "unloaded"
    pollInterval,         \* global handle: NULL or the id of the last setInterval
    lastStateHash,        \* global: NULL or the last stored state_hash
    noChangeCount,        \* global
    currentPollInterval,  \* global
    timers,               \* live interval timers: records [h, fn, run, period]
    inflight,             \* requests sent and not yet resolved, in send order
    reloadPending,        \* some setTimeout(location.reload) callback is pending
    overlay,              \* loading overlay: [hidden, msg]
    shown,                \* progress written to the page by updateProgressUI
    job,                  \* server: the bulk job reported by get_progress
    cert,                 \* server: "none" | "pending" | "completed" | "failed"
    run,                  \* number of poll loops started so far (closure id)
    sent,                 \* number of requests issued so far
    calls,                \* what the last step invoked, in order: "fetch",
                          \* "updateProgressUI", "setInterval", "complete",
                          \* "showError" (toast with error_mensaje),
                          \* "individualComplete"
    lastEvent,            \* the last step: [op, run, data]
    nUpdate,              \* per run: updateProgressUI invocations (up to CountCap)
    nComplete,            \* per run: completion actions executed (up to CountCap)
    kind,                 \* per run: "none" | "checkProgress" | "checkStatus"
    firstResp,            \* per run: "none" | "terminal" | "other"
    stopped,              \* the bulk poll timer was cancelled and not restarted
    formIdx,              \* variant formset: the script's form counter
    totalForms,           \* variant formset: value of #id_variantes-TOTAL_FORMS
    forms,                \* variant formset: the .variante-form-item elements in
                          \* the document: [id, isNew, listeners, deleted]
    initialForms,         \* variant formset: TOTAL_FORMS when the page loaded
    adds,                 \* variant formset: 'add variant' clicks so far
    qrChecked,            \* QR toggle: #toggleQrInput.checked
    qrText,               \* QR toggle: #qrStatusText.textContent
    qrServer,             \* QR toggle: incluir_qr as stored by the server
    qrRequests,           \* QR toggle: toggle_qr requests not yet resolved, in
                          \* send order: [isChecked]
    qrToast,              \* QR toggle: the last toast shown
    toggles               \* QR toggle: clicks so far

formVars == <<formIdx, totalForms, forms, initialForms, adds>>
qrVars == <<qrChecked, qrText, qrServer, qrRequests, qrToast, toggles>>
widgetVars == <<formVars, qrVars>>

pollVars == <<page, pollInterval, lastStateHash, noChangeCount, currentPollInterval,
              timers, inflight, reloadPending, overlay, shown, job, cert,
              run, sent, calls, lastEvent, nUpdate, nComplete, kind, firstResp,
              stopped>>

vars == <<pollVars, widgetVars>>

clientVars == <<pollInterval, lastStateHash, noChangeCount, currentPollInterval,
                timers>>
uiVars == <<reloadPending, overlay, shown>>
serverVars == <<job, cert>>
histVars == <<nUpdate, nComplete, kind, firstResp, stopped>>

NoData == [state_hash |-> NULL, is_complete |-> FALSE, status |-> "none", progress |-> 0]

Count(n) == IF n < CountCap THEN n + 1 ELSE n

Event(op, r, d) == [op |-> op, run |-> r, data |-> d]

(***************************************************************************)
(* Browser timers.                                                         *)
(***************************************************************************)
\* mutant: cancelling a handle that is not live is not a no-op
clearIntervalNotIdle(ts, h) ==
    IF \E t \in ts : t.h = h
    THEN {t \in ts : t.h # h}
    ELSE ts \cup {[h |-> h, fn |-> "checkProgress", run |-> 1, period |-> 1000]}

clearInterval(ts, h) == {t \in ts : t.h # h}

setInterval(ts, h, fn, r, period) ==
    ts \cup {[h |-> h, fn |-> fn, run |-> r, period |-> period]}

\* mutant: the previous timer is left running
ClearIfSetNever(ts, h) == ts

\* if (pollInterval) clearInterval(pollInterval);
ClearIfSet(ts, h) == IF h # NULL THEN clearInterval(ts, h) ELSE ts

(***************************************************************************)
(* Server side, as far as the client can observe it.                       *)
(***************************************************************************)
\* get_progress payload for the bulk job
ProgressPayload(j) ==
    [state_hash |-> j.state_hash, is_complete |-> j.status \in TerminalStatuses,
     status |-> j.status, progress |-> j.progress]

\* get_certificate_status payload
StatusPayload(c) ==
    [state_hash |-> NULL, is_complete |-> c # "pending", status |-> c, progress |-> 0]

\* generate_individual creates the certificate task the poller then watches
CertAfterStart(c) == IF c = "none" THEN "pending" ELSE c

\* A request, with the payload its response will carry: the server answers
\* from the job's state at the time the request is issued; responses may then
\* resolve in any order.
Request(fn, r, j, c) ==
    [fn |-> fn, run |-> r,
     data |-> IF fn = "checkProgress" THEN ProgressPayload(j) ELSE StatusPayload(c)]

\* one more request may be issued within the bounds
CanSend ==
    /\ sent < MaxPolls
    /\ Len(inflight) < MaxInflight

\* The id the next setInterval returns.  Browser ids are opaque and never equal
\* to an id still in use; the only ids the page keeps are the one stored in
\* pollInterval and those of live timers, so the smallest id different from
\* all of them stands for "a new id".
NextHandle ==
    CHOOSE n \in 1..(Cardinality(timers) + 2) :
        /\ n # pollInterval /\ (\A t \in timers : t.h # n)
        /\ \A m \in 1..(n - 1) : m = pollInterval \/ (\E t \in timers : t.h = m)

RemoveAt(s, i) == SubSeq(s, 1, i - 1) \o SubSeq(s, i + 1, Len(s))

(***************************************************************************)
(* Initial state: the script has been evaluated, the document not yet.     *)
(***************************************************************************)
PollInit ==
    /\ page = "loading"
    /\ pollInterval = NULL
    /\ lastStateHash = NULL
    /\ noChangeCount = 0
    /\ currentPollInterval = FastInterval
    /\ timers = {}
    /\ inflight = <<>>
    /\ reloadPending = FALSE
    /\ overlay = [hidden |-> TRUE, msg |-> "none"]
    /\ shown = 0
    /\ job = [status |-> "processing", progress |-> 0, state_hash |-> 1]
    /\ cert = "none"
    /\ run = 0
    /\ sent = 0
    /\ calls = <<>>
    /\ lastEvent = Event("init", 0, NoData)
    /\ nUpdate = [r \in Runs |-> 0]
    /\ nComplete = [r \in Runs |-> 0]
    /\ kind = [r \in Runs |-> "none"]
    /\ firstResp = [r \in Runs |-> "none"]
    /\ stopped = FALSE

(***************************************************************************)
(* Decimal strings, as the DOM stores the value of an <input>: String(n)   *)
(* is the assignment `input.value = n`, parseInt(s) the script's parseInt. *)
(***************************************************************************)
Digits == <<"0", "1", "2", "3", "4", "5", "6", "7", "8", "9">>

RECURSIVE NatString(_)
NatString(n) ==
    IF n < 10 THEN <<Digits[n + 1]>>
    ELSE Append(NatString(n \div 10), Digits[(n % 10) + 1])

String(n) == IF n < 0 THEN <<"-">> \o NatString(0 - n) ELSE NatString(n)

DigitValue(c) == (CHOOSE d \in 1..10 : Digits[d] = c) - 1

RECURSIVE NatValue(_)
NatValue(s) ==
    IF s = <<>> THEN 0
    ELSE 10 * NatValue(SubSeq(s, 1, Len(s) - 1)) + DigitValue(s[Len(s)])

parseInt(s) == IF s[1] = "-" THEN 0 - NatValue(Tail(s)) ELSE NatValue(s)

(***************************************************************************)
(* The variant formset as the template page delivers it: n forms rendered  *)
(* by the server, each with a DELETE checkbox, TOTAL_FORMS = n; the script *)
(* reads the counter and attaches one remove listener to each button.      *)
(* On a page without the formset (n = 0 forms, no add button) the guard of *)
(* the script skips all of it.                                             *)
(***************************************************************************)
attachRemoveListeners(fs) ==
    {[f EXCEPT !.listeners = @ + 1] : f \in fs}

FormsetInit(n) ==
    /\ initialForms = n
    /\ totalForms = String(n)
    /\ formIdx = parseInt(String(n))
    /\ forms = attachRemoveListeners(
                   {[id |-> k, prefix |-> k - 1, isNew |-> FALSE,
                     listeners |-> 0, deleted |-> FALSE] : k \in 1..n})
    /\ adds = 0

(***************************************************************************)
(* The QR toggle as the event page delivers it: the checkbox and the       *)
(* status text are rendered from the stored value.                         *)
(***************************************************************************)
StatusText(b) == IF b THEN "ACTIVO" ELSE "INACTIVO"

QrInit(b) ==
    /\ qrServer = b
    /\ qrChecked = b
    /\ qrText = StatusText(b)
    /\ qrRequests = <<>>
    /\ qrToast = "none"
    /\ toggles = 0

Init ==
    /\ PollInit
    /\ FormsetInit(0)
    /\ QrInit(FALSE)


(***************************************************************************)
(* checkProgress's decision logic (the .then(data => ...) continuation).   *)
(***************************************************************************)
\* mutant: every response counts as a change
hasChangedAlways(last, h) == TRUE

\* const hasChanged = lastStateHash !== data.state_hash;
hasChanged(last, h) == last # h

\* mutant: the counter is not reset on a change
CountAfterNoReset(changed, n) == IF changed THEN n ELSE n + 1

\* noChangeCount = 0;  /  noChangeCount++;
CountAfter(changed, n) == IF changed THEN 0 ELSE n + 1

\* mutant: only the first hash of a session is stored
HashAfterFirstOnly(changed, last, h) == IF last = NULL THEN h ELSE last

\* mutant: the new hash is not stored
HashAfterNotStored(changed, last, h) == last

\* lastStateHash = data.state_hash;  (change branch only)
HashAfter(changed, last, h) == IF changed THEN h ELSE last

\* mutant: the interval never escalates
newIntervalSticky(n, cur) == cur

\* mutant: every rung of the ladder is reached one poll early
newIntervalEarly(n, cur) ==
    IF n + 1 >= Threshold10 THEN Interval10
    ELSE IF n + 1 >= Threshold5 THEN Interval5
    ELSE IF n + 1 >= Threshold3 THEN Interval3
    ELSE cur

\* mutant: strict comparisons in the ladder
newIntervalStrict(n, cur) ==
    IF n > Threshold10 THEN Interval10
    ELSE IF n > Threshold5 THEN Interval5
    ELSE IF n > Threshold3 THEN Interval3
    ELSE cur

\* the backoff ladder applied to the incremented counter
newInterval(n, cur) ==
    IF n >= Threshold10 THEN Interval10
    ELSE IF n >= Threshold5 THEN Interval5
    ELSE IF n >= Threshold3 THEN Interval3
    ELSE cur

\* mutant: a change does not bring the interval back to 1000
IntervalAfterNoReset(changed, n, cur) == newInterval(n, cur)

\* currentPollInterval after the change / no-change branch
IntervalAfter(changed, n, cur) ==
    IF changed THEN FastInterval ELSE newInterval(n, cur)

\* mutant: the new timer is created without cancelling the current one
RescheduleLeaks(ts, h, nh, r, old, new) ==
    IF old # new THEN setInterval(ts, nh, "checkProgress", r, new) ELSE ts

\* mutant: the timer keeps running with its old period
RescheduleNever(ts, h, nh, r, old, new) == ts

\* clearInterval(pollInterval); pollInterval = setInterval(checkProgress, new)
\* executed only when the interval changed value
Reschedule(ts, h, nh, r, old, new) ==
    IF old # new
    THEN setInterval(clearInterval(ts, h), nh, "checkProgress", r, new)
    ELSE ts

\* mutant: the new timer's id is not stored in pollInterval
HandleAfterStale(h, nh, old, new) == h

\* the handle after the branch: the new timer's id when one was created
HandleAfter(h, nh, old, new) == IF old # new THEN nh ELSE h

\* mutant: a terminal response leaves the timer running
StopIfCompleteNever(ts, h, complete) == ts

\* if (data.is_complete) clearInterval(pollInterval);
StopIfComplete(ts, h, complete) == IF complete THEN clearInterval(ts, h) ELSE ts

\* mutant: the completion block runs for every successful response
CompletionAlways(complete) == <<"complete">>

\* if (data.is_complete) { ...updateMessage(complete); setTimeout(reload) }
Completion(complete) == IF complete THEN <<"complete">> ELSE <<>>

(***************************************************************************)
(* updateProgressUI and the loading overlay.                               *)
(***************************************************************************)
\* overlay after updateProgressUI(data): shown when the job is processing and
\* the overlay was hidden, message refreshed when it is visible
updateProgressUI(o, d) ==
    LET vis == (~o.hidden) \/ d.status = "processing"
    IN  IF vis THEN [hidden |-> FALSE, msg |-> "progress"] ELSE o

\* window.loadingOverlay.updateMessage(currentMessages.complete)
OverlayAfterComplete(o) == [o EXCEPT !.msg = "complete"]

HasBulkTimer(ts) == \E t \in ts : t.fn = "checkProgress"

\* the bulk poll timer was live and is not any more
BulkCancelled(ts, ts2) == HasBulkTimer(ts) /\ ~HasBulkTimer(ts2)

\* mutant: the first query waits for the first tick
FirstQueryDeferred(q, req) == q

\* checkProgress(); / checkStatus();  called synchronously by the start
\* function, before its setInterval
FirstQuery(q, req) == Append(q, req)

(***************************************************************************)
(* startPolling(actionType): cancel, reset, poll once, schedule.           *)
(* actionType only selects the message strings and is not represented.     *)
(***************************************************************************)
\* mutant: the session state of the previous run is kept
startPollingNoReset ==
    /\ run < MaxStarts
    /\ CanSend
    /\ run' = run + 1
    /\ inflight' = FirstQuery(inflight, Request("checkProgress", run + 1, job, cert))
    /\ sent' = sent + 1
    /\ pollInterval' = NextHandle
    /\ timers' = setInterval(ClearIfSet(timers, pollInterval), NextHandle,
                             "checkProgress", run + 1, currentPollInterval)
    /\ calls' = <<"fetch", "setInterval">>
    /\ stopped' = FALSE
    /\ kind' = [kind EXCEPT ![run + 1] = "checkProgress"]
    /\ UNCHANGED <<lastStateHash, noChangeCount, currentPollInterval,
                   reloadPending, shown, nUpdate, nComplete, firstResp, serverVars>>

startPolling ==
    /\ run < MaxStarts
    /\ CanSend
    /\ lastStateHash' = NULL
    /\ noChangeCount' = 0
    /\ currentPollInterval' = FastInterval
    /\ run' = run + 1
    /\ inflight' = FirstQuery(inflight, Request("checkProgress", run + 1, job, cert))
    /\ sent' = sent + 1
    /\ pollInterval' = NextHandle
    /\ timers' = setInterval(ClearIfSet(timers, pollInterval), NextHandle,
                             "checkProgress", run + 1, FastInterval)
    /\ calls' = <<"fetch", "setInterval">>
    /\ stopped' = FALSE
    /\ kind' = [kind EXCEPT ![run + 1] = "checkProgress"]
    /\ UNCHANGED <<reloadPending, shown, nUpdate, nComplete, firstResp, serverVars>>

\* document 'DOMContentLoaded': poll when the progress section is visible
DOMContentLoaded(visible) ==
    /\ page = "loading"
    /\ page' = "ready"
    /\ IF visible
       THEN /\ startPolling
            /\ lastEvent' = Event("startPolling", run + 1, NoData)
       ELSE /\ lastEvent' = Event("loaded", run, NoData)
            /\ calls' = <<>>
            /\ UNCHANGED <<clientVars, inflight, reloadPending, shown, serverVars,
                           run, sent, histVars>>
    /\ UNCHANGED <<overlay, widgetVars>>

\* startGeneration / confirmSend: the overlay is shown, the start request
\* succeeds and its continuation calls startPolling
BatchStarted ==
    /\ page = "ready"
    /\ startPolling
    /\ overlay' = [hidden |-> FALSE, msg |-> "starting"]
    /\ lastEvent' = Event("startPolling", run + 1, NoData)
    /\ UNCHANGED <<page, widgetVars>>

\* generateIndividual: the overlay is shown, the request succeeds and its
\* continuation calls startIndividualPolling(certId)
startIndividualPolling ==
    /\ page = "ready"
    /\ run < MaxStarts
    /\ CanSend
    /\ run' = run + 1
    /\ inflight' = FirstQuery(inflight,
                              Request("checkStatus", run + 1, job, CertAfterStart(cert)))
    /\ sent' = sent + 1
    /\ pollInterval' = NextHandle
    /\ timers' = setInterval(ClearIfSet(timers, pollInterval), NextHandle,
                             "checkStatus", run + 1, IndividualInterval)
    /\ overlay' = [hidden |-> FALSE, msg |-> "starting"]
    /\ calls' = <<"fetch", "setInterval">>
    /\ lastEvent' = Event("startIndividualPolling", run + 1, NoData)
    /\ stopped' = (stopped \/ BulkCancelled(timers, timers'))
    /\ cert' = CertAfterStart(cert)
    /\ kind' = [kind EXCEPT ![run + 1] = "checkStatus"]
    /\ UNCHANGED <<page, lastStateHash, noChangeCount, currentPollInterval,
                   reloadPending, shown, nUpdate, nComplete, firstResp, job,
                   widgetVars>>

\* a live interval timer fires: checkProgress() / checkStatus() issues a request
Tick(t) ==
    /\ page = "ready"
    /\ t \in timers
    /\ CanSend
    /\ inflight' = Append(inflight, Request(t.fn, t.run, job, cert))
    /\ sent' = sent + 1
    /\ calls' = <<"fetch">>
    /\ lastEvent' = Event("tick", t.run, NoData)
    /\ UNCHANGED <<page, clientVars, uiVars, serverVars, run, histVars,
                   widgetVars>>


(***************************************************************************)
(* A get_progress request resolves.                                        *)
(*   "error":     fetch rejects or res.json() throws -> .catch, logged     *)
(*   "nosuccess": data.success is false -> nothing                         *)
(*   "ok":        data.success is true -> the handler body                 *)
(***************************************************************************)
Outcomes == {"ok", "nosuccess", "error"}

ProgressHandler(req) ==
    LET d       == req.data
        changed == hasChanged(lastStateHash, d.state_hash)
        n1      == CountAfter(changed, noChangeCount)
        cpi1    == IntervalAfter(changed, n1, currentPollInterval)
        ts1     == Reschedule(timers, pollInterval, NextHandle, req.run,
                              currentPollInterval, cpi1)
        h1      == HandleAfter(pollInterval, NextHandle, currentPollInterval, cpi1)
        ts2     == StopIfComplete(ts1, h1, d.is_complete)
        o1      == IF changed THEN updateProgressUI(overlay, d) ELSE overlay
        upd     == IF changed
                   THEN <<"updateProgressUI">>
                   ELSE <<>>
        rsch    == IF h1 # pollInterval THEN <<"setInterval">> ELSE <<>>
        cmp     == Completion(d.is_complete)
    IN  /\ noChangeCount' = n1
        /\ currentPollInterval' = cpi1
        /\ lastStateHash' = HashAfter(changed, lastStateHash, d.state_hash)
        /\ timers' = ts2
        /\ pollInterval' = h1
        /\ shown' = IF changed THEN d.progress ELSE shown
        /\ overlay' = IF d.is_complete THEN OverlayAfterComplete(o1) ELSE o1
        /\ reloadPending' = (reloadPending \/ d.is_complete)
        /\ calls' = upd \o rsch \o cmp
        /\ nUpdate' = IF changed
                      THEN [nUpdate EXCEPT ![req.run] = Count(@)] ELSE nUpdate
        /\ nComplete' = IF d.is_complete
                        THEN [nComplete EXCEPT ![req.run] = Count(@)] ELSE nComplete
        /\ firstResp' = IF firstResp[req.run] = "none"
                        THEN [firstResp EXCEPT ![req.run] =
                                 IF d.is_complete THEN "terminal" ELSE "other"]
                        ELSE firstResp
        /\ stopped' = (stopped \/ BulkCancelled(timers, ts2))
        /\ UNCHANGED kind

\* mutant: a failed query cancels the timer
ProgressFailedStops ==
    /\ calls' = <<>>
    /\ timers' = clearInterval(timers, pollInterval)
    /\ UNCHANGED <<pollInterval, lastStateHash, noChangeCount, currentPollInterval,
                   uiVars, histVars>>

\* mutant: a failed query counts as a poll without change
ProgressFailedCounts ==
    /\ calls' = <<>>
    /\ noChangeCount' = noChangeCount + 1
    /\ UNCHANGED <<pollInterval, lastStateHash, currentPollInterval, timers,
                   uiVars, histVars>>

\* data.success false: the handler body is skipped; a rejected fetch or a
\* parse error: .catch logs to the console.  Nothing of the page changes.
ProgressFailed ==
    /\ calls' = <<>>
    /\ UNCHANGED <<clientVars, uiVars, histVars>>

ResolveProgress(i, outcome) ==
    /\ page = "ready"
    /\ i \in 1..Len(inflight)
    /\ inflight[i].fn = "checkProgress"
    /\ inflight' = RemoveAt(inflight, i)
    /\ lastEvent' = Event(IF outcome = "ok" THEN "progress" ELSE "progressFailed",
                          inflight[i].run, inflight[i].data)
    /\ IF outcome = "ok"
       THEN ProgressHandler(inflight[i])
       ELSE ProgressFailed
    /\ UNCHANGED <<page, serverVars, run, sent, widgetVars>>

(***************************************************************************)
(* A get_certificate_status request resolves (checkStatus's continuation). *)
(***************************************************************************)
\* mutant: the page reload is scheduled for a failed certificate too
ReloadAfterStatusAlways(pending, status) == TRUE

\* setTimeout(() => location.reload(), 1000) in the branch status !== 'failed'
ReloadAfterStatus(pending, status) == IF status = "failed" THEN pending ELSE TRUE

StatusHandler(req) ==
    LET d == req.data
    IN  IF d.is_complete
        THEN /\ timers' = clearInterval(timers, pollInterval)
             /\ overlay' = IF d.status = "failed"
                           THEN [overlay EXCEPT !.hidden = TRUE]
                           ELSE OverlayAfterComplete(overlay)
             /\ reloadPending' = ReloadAfterStatus(reloadPending, d.status)
             /\ calls' = IF d.status = "failed"
                         THEN <<"showError", "individualComplete">>
                         ELSE <<"individualComplete">>
             /\ nComplete' = [nComplete EXCEPT ![req.run] = Count(@)]
             /\ stopped' = (stopped \/ BulkCancelled(timers, timers'))
        ELSE /\ calls' = <<>>
             /\ UNCHANGED <<timers, overlay, reloadPending, nComplete, stopped>>

ResolveStatus(i, outcome) ==
    /\ page = "ready"
    /\ i \in 1..Len(inflight)
    /\ inflight[i].fn = "checkStatus"
    /\ inflight' = RemoveAt(inflight, i)
    /\ lastEvent' = Event(IF outcome = "ok" THEN "status" ELSE "statusFailed",
                          inflight[i].run, inflight[i].data)
    /\ IF outcome = "ok"
       THEN StatusHandler(inflight[i])
       ELSE /\ calls' = <<>>
            /\ UNCHANGED <<timers, overlay, reloadPending, nComplete, stopped>>
    /\ UNCHANGED <<page, pollInterval, lastStateHash, noChangeCount,
                   currentPollInterval, shown, serverVars, run, sent,
                   nUpdate, kind, firstResp, widgetVars>>

\* setTimeout(() => location.reload(), ...) fires: the page and all its timers,
\* requests and globals are gone
Reload ==
    /\ page = "ready"
    /\ reloadPending
    /\ page' = "unloaded"
    /\ timers' = {}
    /\ inflight' = <<>>
    /\ reloadPending' = FALSE
    /\ pollInterval' = NULL
    /\ lastStateHash' = NULL
    /\ noChangeCount' = 0
    /\ currentPollInterval' = FastInterval
    /\ calls' = <<>>
    /\ lastEvent' = Event("reload", run, NoData)
    /\ UNCHANGED <<overlay, shown, serverVars, run, sent, histVars, widgetVars>>

(***************************************************************************)
(* The server's jobs advance on their own.  A job that reached a terminal  *)
(* status does not change any more.                                        *)
(***************************************************************************)
JobAdvance ==
    /\ page # "unloaded"
    /\ job.status \notin TerminalStatuses
    /\ \E s \in BulkStatuses, p \in job.progress..MaxPercent, h \in Hashes :
          /\ job' = [status |-> s, progress |-> p, state_hash |-> h]
          /\ job' # job
    /\ calls' = <<>>
    /\ lastEvent' = Event("server", run, NoData)
    /\ UNCHANGED <<page, clientVars, inflight, uiVars, cert, run, sent, histVars,
                   widgetVars>>

CertAdvance ==
    /\ page = "ready"
    /\ cert = "pending"
    /\ cert' \in {"completed", "failed"}
    /\ calls' = <<>>
    /\ lastEvent' = Event("server", run, NoData)
    /\ UNCHANGED <<page, clientVars, inflight, uiVars, job, run, sent, histVars,
                   widgetVars>>

(***************************************************************************)
(* Spec: everything the page can do during its first WidePolls requests:   *)
(* overlapping requests, restarts, both pollers.  The server's jobs are    *)
(* advanced only while a request that could observe the advance can still  *)
(* be issued.                                                              *)
(***************************************************************************)
Next ==
    \/ \E visible \in BOOLEAN : DOMContentLoaded(visible)
    \/ sent < WidePolls /\ BatchStarted
    \/ sent < WidePolls /\ startIndividualPolling
    \/ \E t \in timers : sent < WidePolls /\ Tick(t)
    \/ \E i \in 1..MaxInflight, o \in Outcomes : ResolveProgress(i, o)
    \/ \E i \in 1..MaxInflight, o \in Outcomes : ResolveStatus(i, o)
    \/ Reload
    \/ sent < WidePolls /\ JobAdvance
    \/ sent < WidePolls /\ CertAdvance

Spec == Init /\ [][Next]_vars

(***************************************************************************)
(* SpecRestart: the bulk poller alone during its first WidePolls requests: *)
(* overlapping requests and restarts by startGeneration / confirmSend.     *)
(***************************************************************************)
NextRestart ==
    \/ \E visible \in BOOLEAN : DOMContentLoaded(visible)
    \/ sent < WidePolls /\ BatchStarted
    \/ \E t \in timers : sent < WidePolls /\ Tick(t)
    \/ \E i \in 1..MaxInflight, o \in Outcomes : ResolveProgress(i, o)
    \/ Reload
    \/ sent < WidePolls /\ JobAdvance

SpecRestart == Init /\ [][NextRestart]_vars

(***************************************************************************)
(* SpecPollers: both pollers during the first WidePolls requests, started  *)
(* and restarted in any order, a timer firing only when no request is in   *)
(* flight (a start may still overlap a request in flight).                 *)
(***************************************************************************)
NextPollers ==
    \/ \E visible \in BOOLEAN : DOMContentLoaded(visible)
    \/ sent < WidePolls /\ BatchStarted
    \/ sent < WidePolls /\ startIndividualPolling
    \/ \E t \in timers : sent < WidePolls /\ inflight = <<>> /\ Tick(t)
    \/ \E o \in Outcomes : ResolveProgress(1, o)
    \/ \E o \in Outcomes : ResolveStatus(1, o)
    \/ Reload
    \/ sent < WidePolls /\ JobAdvance
    \/ sent < WidePolls /\ CertAdvance

SpecPollers == Init /\ [][NextPollers]_vars

(***************************************************************************)
(* SpecIndividual: the individual poller on a page that may have started   *)
(* the bulk poller when it loaded: fixed-rate ticks, overlapping requests  *)
(* resolving in any order, the certificate task completing or failing at   *)
(* any moment.                                                             *)
(***************************************************************************)
NextIndividual ==
    \/ \E visible \in BOOLEAN : DOMContentLoaded(visible)
    \/ startIndividualPolling
    \/ \E t \in timers : Tick(t)
    \/ \E i \in 1..MaxInflight, o \in Outcomes : ResolveProgress(i, o)
    \/ \E i \in 1..MaxInflight, o \in Outcomes : ResolveStatus(i, o)
    \/ Reload
    \/ CertAdvance

SpecIndividual == Init /\ [][NextIndividual]_vars

(***************************************************************************)
(* SpecSessions: startPolling sessions one after the other during the      *)
(* first LivePolls requests: a timer fires only when no request is in      *)
(* flight, startGeneration / confirmSend may start a new session at any    *)
(* moment, also while a response of the previous one is pending.           *)
(***************************************************************************)
NextSessions ==
    \/ \E visible \in BOOLEAN : DOMContentLoaded(visible)
    \/ sent < LivePolls /\ BatchStarted
    \/ \E t \in timers : sent < LivePolls /\ inflight = <<>> /\ Tick(t)
    \/ \E o \in Outcomes : ResolveProgress(1, o)
    \/ Reload
    \/ sent < LivePolls /\ JobAdvance

SpecSessions == Init /\ [][NextSessions]_vars

(***************************************************************************)
(* SpecOverlap: one startPolling run during its first LivePolls requests,  *)
(* the fixed-rate timer firing while earlier requests are pending and the  *)
(* responses resolving in any order.                                       *)
(***************************************************************************)
NextOverlap ==
    \/ \E visible \in BOOLEAN : DOMContentLoaded(visible)
    \/ run = 0 /\ BatchStarted
    \/ \E t \in timers : sent < LivePolls /\ Tick(t)
    \/ \E i \in 1..MaxInflight, o \in Outcomes : ResolveProgress(i, o)
    \/ Reload
    \/ sent < LivePolls /\ JobAdvance

SpecOverlap == Init /\ [][NextOverlap]_vars

(***************************************************************************)
(* SpecLadder: one startPolling run followed for MaxPolls requests, each   *)
(* response resolving before the next tick, so that every rung of the      *)
(* backoff ladder is reached.                                              *)
(***************************************************************************)
NextLadder ==
    \/ \E visible \in BOOLEAN : DOMContentLoaded(visible)
    \/ run = 0 /\ BatchStarted
    \/ \E t \in timers : inflight = <<>> /\ Tick(t)
    \/ \E o \in Outcomes : ResolveProgress(1, o)
    \/ Reload
    \/ sent < MaxPolls /\ JobAdvance

SpecLadder == Init /\ [][NextLadder]_vars

(***************************************************************************)
(* SpecLive: SpecLadder under the assumptions of the termination claim:    *)
(* a live timer keeps firing, a request in flight eventually resolves, and *)
(* a request answered from a terminal job resolves successfully (only      *)
(* requests answered before that may fail).                                *)
(***************************************************************************)
TickWhenIdle == \E t \in timers : sent < LivePolls /\ inflight = <<>> /\ Tick(t)

ResolveOk == ResolveProgress(1, "ok")

ResolveFailed ==
    /\ inflight # <<>>
    /\ ~inflight[1].data.is_complete
    /\ \E o \in Outcomes \ {"ok"} : ResolveProgress(1, o)

NextLive ==
    \/ \E visible \in BOOLEAN : DOMContentLoaded(visible)
    \/ run = 0 /\ BatchStarted
    \/ TickWhenIdle
    \/ ResolveOk
    \/ ResolveFailed
    \/ Reload
    \/ sent < LivePolls /\ JobAdvance

SpecLive ==
    /\ Init /\ [][NextLive]_vars
    /\ WF_vars(TickWhenIdle)
    /\ WF_vars(ResolveOk)


(***************************************************************************)
(* Vocabulary of the properties.                                           *)
(***************************************************************************)
\* the last step processed a get_progress response with data.success true
ProgressOk == lastEvent.op = "progress"

NumCalls(cs, name) == Cardinality({k \in 1..Len(cs) : cs[k] = name})

BulkRuns == {r \in Runs : kind[r] = "checkProgress"}

\* a startPolling run is active: its timer is live
PollActive == HasBulkTimer(timers)

(***************************************************************************)
(* C1: in every startPolling run the completion action (completion message *)
(* and scheduling of the page reload) is executed exactly once when the    *)
(* job reports a terminal state, never twice, for every interleaving of    *)
(* timer ticks and response resolutions.                                   *)
(***************************************************************************)
C1_CompleteExactlyOnce ==
    \A r \in BulkRuns : nComplete[r] > 0 => nComplete[r] = 1

(***************************************************************************)
(* C2: once the poller has been stopped (its timer cancelled through       *)
(* clearInterval on the poll handle and no new startPolling since), no     *)
(* step invokes updateProgressUI or the completion action any more.        *)
(***************************************************************************)
C2_NoCallbackAfterStop ==
    [][stopped => /\ NumCalls(calls', "updateProgressUI") = 0
                  /\ NumCalls(calls', "complete") = 0]_vars

(***************************************************************************)
(* C3 (as stated): startPolling while a poll loop is active is a no-op:    *)
(* timer, interval, streak and fingerprint unchanged, no query issued.     *)
(***************************************************************************)
C3_StartWhileActiveIsNoop ==
    [][(lastEvent'.op = "startPolling" /\ PollActive)
          => UNCHANGED <<timers, currentPollInterval, noChangeCount,
                         lastStateHash, inflight>>]_vars

(***************************************************************************)
(* C3 (amended): startPolling while a poll loop is active restarts the     *)
(* loop: the running timer is cancelled and replaced by exactly one new    *)
(* timer at 1000 ms, lastStateHash is null again, noChangeCount 0,         *)
(* currentPollInterval 1000, and one additional query is issued at once.   *)
(***************************************************************************)
C3_StartWhileActiveRestarts ==
    [][(lastEvent'.op = "startPolling" /\ PollActive)
          => /\ \A t \in timers : t \notin timers'
             /\ \E t \in timers' :
                   /\ timers' = {t}
                   /\ t.h = pollInterval' /\ t.h # pollInterval
                   /\ t.fn = "checkProgress" /\ t.run = run' /\ t.period = 1000
             /\ lastStateHash' = NULL
             /\ noChangeCount' = 0
             /\ currentPollInterval' = 1000
             /\ Len(inflight') = Len(inflight) + 1
             /\ inflight'[Len(inflight')].fn = "checkProgress"
             /\ inflight'[Len(inflight')].run = run']_vars

\* startPolling has just been called for the second time while the first
\* loop had not completed (its timer was still live) and one of its requests
\* was still in flight
C3_Witness ==
    /\ lastEvent.op = "startPolling"
    /\ run = 2
    /\ kind[1] = "checkProgress"
    /\ nComplete[1] = 0
    /\ firstResp[1] = "other"
    /\ Len(inflight) = 2

(***************************************************************************)
(* C4: after the step that processes a successful response reporting a     *)
(* terminal job no interval timer is live, whether the fingerprint changed *)
(* or not and whether or not the same step rescheduled the timer first.    *)
(***************************************************************************)
C4_TerminalCancelsTimer ==
    (ProgressOk /\ lastEvent.data.is_complete) => timers = {}

\* a terminal response whose processing first rescheduled the timer (the
\* interval fell back from an escalated value) and then cancelled it
C4_Witness ==
    /\ ProgressOk
    /\ lastEvent.data.is_complete
    /\ calls = <<"updateProgressUI", "setInterval", "complete">>
    /\ timers = {}

(***************************************************************************)
(* C5: when the first response of a run already reports a terminal job,    *)
(* the run executes exactly one updateProgressUI and exactly one           *)
(* completion action and leaves no timer scheduled, also when that         *)
(* response resolves after the initial 1000 ms timer has fired.            *)
(***************************************************************************)
C5_FirstPollTerminal ==
    (run = 1 /\ kind[1] = "checkProgress" /\ firstResp[1] = "terminal"
        /\ page = "ready")
        => /\ nUpdate[1] = 1
           /\ nComplete[1] = 1
           /\ timers = {}


(***************************************************************************)
(* C6: a successfully processed response sets noChangeCount to 0 when its  *)
(* state_hash differs from the stored lastStateHash (null before the first *)
(* response) and increments it by exactly 1 when it is equal; apart from   *)
(* the reset by startPolling (and the page going away) no other step       *)
(* modifies it.                                                            *)
(***************************************************************************)
C6_StreakResetOrIncrement ==
    [][IF lastEvent'.op = "progress"
       THEN noChangeCount' = IF lastEvent'.data.state_hash # lastStateHash
                             THEN 0 ELSE noChangeCount + 1
       ELSE IF lastEvent'.op = "startPolling"
       THEN noChangeCount' = 0
       ELSE lastEvent'.op = "reload" \/ noChangeCount' = noChangeCount]_vars

\* a streak was built, and a change has just reset it while the interval was
\* escalated
C6_Witness ==
    /\ ProgressOk
    /\ noChangeCount = 0
    /\ calls = <<"updateProgressUI", "setInterval">>

(***************************************************************************)
(* C7: on a no-change response the new currentPollInterval is determined   *)
(* by the incremented noChangeCount: 5000 when >= 10, otherwise 3000 when  *)
(* >= 5, otherwise 2000 when >= 3, otherwise the interval stays as it was. *)
(***************************************************************************)
C7_BackoffLadder ==
    [][(lastEvent'.op = "progress" /\ lastEvent'.data.state_hash = lastStateHash)
          => currentPollInterval' =
                IF noChangeCount + 1 >= 10 THEN 5000
                ELSE IF noChangeCount + 1 >= 5 THEN 3000
                ELSE IF noChangeCount + 1 >= 3 THEN 2000
                ELSE currentPollInterval]_vars

\* the tenth response without change has just moved the interval to 5000
C7_Witness ==
    /\ ProgressOk
    /\ noChangeCount = 10
    /\ currentPollInterval = 5000
    /\ calls = <<"setInterval">>

(***************************************************************************)
(* C8: currentPollInterval is always one of 1000, 2000, 3000, 5000; a      *)
(* no-change response never decreases it; and it is 1000 right after any   *)
(* response whose state_hash changed.                                      *)
(***************************************************************************)
C8_IntervalOnLadder ==
    /\ [](currentPollInterval \in {1000, 2000, 3000, 5000})
    /\ [][(lastEvent'.op = "progress" /\ lastEvent'.data.state_hash = lastStateHash)
             => currentPollInterval' >= currentPollInterval]_vars
    /\ [][(lastEvent'.op = "progress" /\ lastEvent'.data.state_hash # lastStateHash)
             => currentPollInterval' = 1000]_vars

\* late in a run a change has brought an escalated interval back to 1000
C8_Witness ==
    /\ ProgressOk
    /\ currentPollInterval = 1000
    /\ calls = <<"updateProgressUI", "setInterval">>
    /\ sent >= 7

(***************************************************************************)
(* C9: a successful response whose state_hash differs from lastStateHash   *)
(* sets noChangeCount to 0 and currentPollInterval to 1000, stores the new *)
(* hash in lastStateHash and calls updateProgressUI exactly once with that *)
(* response (the page then shows its progress).                            *)
(***************************************************************************)
C9_OnChange ==
    [][(lastEvent'.op = "progress" /\ lastEvent'.data.state_hash # lastStateHash)
          => /\ noChangeCount' = 0
             /\ currentPollInterval' = 1000
             /\ lastStateHash' = lastEvent'.data.state_hash
             /\ NumCalls(calls', "updateProgressUI") = 1
             /\ calls'[1] = "updateProgressUI"
             /\ shown' = lastEvent'.data.progress]_vars

\* a change observed after an earlier hash had been stored: the hash was
\* replaced and the page shows the new progress
C9_Witness ==
    /\ ProgressOk
    /\ calls = <<"updateProgressUI">>
    /\ nUpdate[lastEvent.run] = 2
    /\ lastStateHash = lastEvent.data.state_hash
    /\ shown = lastEvent.data.progress
    /\ shown > 0

(***************************************************************************)
(* C10: updateProgressUI is never called for a response whose state_hash   *)
(* equals lastStateHash, also when its other payload fields differ from    *)
(* what the page shows: the page keeps showing the old values.             *)
(***************************************************************************)
C10_NoUpdateOnEqualHash ==
    [][(lastEvent'.op = "progress" /\ lastEvent'.data.state_hash = lastStateHash)
          => /\ NumCalls(calls', "updateProgressUI") = 0
             /\ shown' = shown]_vars

\* a response with the stored hash but another progress than the page shows
\* has been processed without touching the page
C10_Witness ==
    /\ ProgressOk
    /\ NumCalls(calls, "updateProgressUI") = 0
    /\ lastEvent.data.state_hash = lastStateHash
    /\ lastEvent.data.progress # shown
    /\ nUpdate[lastEvent.run] > 0

(***************************************************************************)
(* Scenario A: the k-th request of the first run resolves successfully     *)
(* with a non-terminal job, all k - 1 requests before it having resolved   *)
(* successfully with the fingerprints A, A, A, A, B: the first response    *)
(* changed the (null) hash, the responses 2..4 did not, the fifth does.    *)
(* In SpecLadder every response resolves before the next tick, so sent,    *)
(* nUpdate and noChangeCount before the step identify the prefix.          *)
(***************************************************************************)
ScenarioAPoll(k) ==
    /\ run = 1 /\ sent = k
    /\ nUpdate[1] = (IF k = 1 THEN 0 ELSE 1)
    /\ noChangeCount = (IF k = 1 THEN 0 ELSE k - 2)
    /\ lastEvent'.op = "progress"
    /\ ~lastEvent'.data.is_complete
    /\ IF k \in {1, 5}
       THEN lastEvent'.data.state_hash # lastStateHash
       ELSE lastEvent'.data.state_hash = lastStateHash

(***************************************************************************)
(* C11 (as stated): in scenario A the interval in effect after the polls   *)
(* 1..5 is 1000, 1000, 2000, 2000, 1000.                                   *)
(***************************************************************************)
C11_ScenarioAAsStated ==
    [][\A k \in 1..5 :
          ScenarioAPoll(k)
             => currentPollInterval' = <<1000, 1000, 2000, 2000, 1000>>[k]]_vars

(***************************************************************************)
(* C11 (amended): in scenario A the interval in effect after the polls     *)
(* 1..5 is 1000, 1000, 1000, 2000, 1000: the first response counts as a    *)
(* change, so the streak reaches 3 with the fourth response.               *)
(***************************************************************************)
C11_ScenarioA ==
    [][\A k \in 1..5 :
          ScenarioAPoll(k)
             => currentPollInterval' = <<1000, 1000, 1000, 2000, 1000>>[k]]_vars

\* the fifth response of scenario A has just been processed: only after
\* A, A, A, A can the fifth request's response find an escalated interval
C11_Witness ==
    /\ ProgressOk
    /\ run = 1 /\ sent = 5
    /\ ~lastEvent.data.is_complete
    /\ calls = <<"updateProgressUI", "setInterval">>
    /\ noChangeCount = 0
    /\ currentPollInterval = 1000

(***************************************************************************)
(* C12: a get_progress query that fails (rejected fetch, parse error or    *)
(* success = false) does not stop the loop: the step leaves the live       *)
(* timers, their periods and the handle in pollInterval as they were, and  *)
(* after it every live timer can still fire and issue a new query.         *)
(***************************************************************************)
C12_FailureKeepsLoop ==
    /\ [][lastEvent'.op = "progressFailed"
             => /\ timers' = timers
                /\ pollInterval' = pollInterval
                /\ HasBulkTimer(timers) => HasBulkTimer(timers')]_vars
    /\ []((lastEvent.op = "progressFailed" /\ CanSend)
             => \A t \in timers : ENABLED Tick(t))

\* a query has just failed while the loop was running at an escalated
\* period: the timer with that period is still live
C12_Witness ==
    /\ lastEvent.op = "progressFailed"
    /\ \E t \in timers : /\ t.h = pollInterval
                          /\ t.fn = "checkProgress"
                          /\ t.period = Interval5
    /\ CanSend

(***************************************************************************)
(* C13: a failed get_progress query leaves lastStateHash, noChangeCount    *)
(* and currentPollInterval unchanged and invokes neither updateProgressUI  *)
(* nor the completion action; nothing of the session (globals, timers,     *)
(* overlay, pending reload, shown progress) changes, so the failed poll    *)
(* is invisible to every later poll.                                       *)
(***************************************************************************)
C13_FailureIsInvisible ==
    [][lastEvent'.op = "progressFailed"
          => /\ lastStateHash' = lastStateHash
             /\ noChangeCount' = noChangeCount
             /\ currentPollInterval' = currentPollInterval
             /\ calls' = <<>>
             /\ UNCHANGED <<clientVars, uiVars, nUpdate, nComplete>>]_vars

\* a query has just failed in the middle of a streak (scenario C: poll 3
\* fails after two successful polls)
C13_Witness ==
    /\ lastEvent.op = "progressFailed"
    /\ run = 1 /\ sent = 3
    /\ noChangeCount = 1
    /\ lastStateHash # NULL

(***************************************************************************)
(* C14: a response that changes currentPollInterval (escalation or reset   *)
(* to 1000) tears the current timer down and schedules a new one with the  *)
(* new period (which the same step cancels again when the job is           *)
(* terminal); in every state a live checkProgress timer has the period     *)
(* currentPollInterval.                                                    *)
(***************************************************************************)
C14_TimerFollowsInterval ==
    /\ [](\A t \in timers :
             t.fn = "checkProgress" => t.period = currentPollInterval)
    /\ [][(lastEvent'.op = "progress"
              /\ currentPollInterval' # currentPollInterval)
             => /\ NumCalls(calls', "setInterval") = 1
                /\ \A t \in timers : t \notin timers'
                /\ pollInterval' # pollInterval
                /\ IF lastEvent'.data.is_complete
                   THEN timers' = {}
                   ELSE timers' = {[h |-> pollInterval', fn |-> "checkProgress",
                                    run |-> lastEvent'.run,
                                    period |-> currentPollInterval']}]_vars

\* the fifth response without change has just replaced the 2000 ms timer
\* by a 3000 ms timer
C14_Witness ==
    /\ ProgressOk
    /\ calls = <<"setInterval">>
    /\ noChangeCount = Threshold5
    /\ \E t \in timers : t.h = pollInterval /\ t.period = Interval5
    /\ currentPollInterval = Interval5

(***************************************************************************)
(* C15: startPolling and startIndividualPolling issue their first query in *)
(* the step of the call itself, before they schedule the recurring timer:  *)
(* right after the call one more request, of the new run, is in flight,    *)
(* without any timer having fired.                                         *)
(***************************************************************************)
C15_FirstQueryImmediate ==
    [][lastEvent'.op \in {"startPolling", "startIndividualPolling"}
          => /\ Len(inflight') = Len(inflight) + 1
             /\ inflight'[Len(inflight')].run = run'
             /\ inflight'[Len(inflight')].fn = kind'[run']
             /\ calls' = <<"fetch", "setInterval">>
             /\ \E t \in timers' : t.h = pollInterval' /\ t.run = run']_vars

\* startIndividualPolling has just been called while the bulk poller was
\* running: its first status query is in flight
C15_Witness ==
    /\ lastEvent.op = "startIndividualPolling"
    /\ run = 2
    /\ kind[1] = "checkProgress"
    /\ inflight # <<>>
    /\ inflight[Len(inflight)].fn = "checkStatus"
    /\ inflight[Len(inflight)].run = 2

\* requests of run r sent and not yet resolved
InFlightOf(r) == {i \in 1..Len(inflight) : inflight[i].run = r}

(***************************************************************************)
(* C16: while a startPolling run is active (its timer is live) at most one *)
(* of its get_progress queries is in flight: a query is issued only after  *)
(* the previous one has resolved or failed.                                *)
(***************************************************************************)
C16_AtMostOneInFlight ==
    \A t \in timers :
        t.fn = "checkProgress" => Cardinality(InFlightOf(t.run)) <= 1

(***************************************************************************)
(* C17: the server's progress never decreases (JobAdvance), and within one *)
(* polling run the progress passed to updateProgressUI never decreases     *)
(* either, whatever the order in which overlapping requests resolve.       *)
(* Stated for the first run while it is the only one: shown is then the    *)
(* progress of that run's previous updateProgressUI call.                  *)
(***************************************************************************)
C17_ShownNeverDecreases ==
    [][(run = 1 /\ lastEvent'.op = "progress" /\ nUpdate[1] > 0
          /\ NumCalls(calls', "updateProgressUI") > 0)
          => shown' >= shown]_vars

\* the step executed a completion action (bulk or individual)
Completes(cs) ==
    NumCalls(cs, "complete") + NumCalls(cs, "individualComplete") > 0

(***************************************************************************)
(* C18: the completion action of a run (completion message, page reload    *)
(* scheduled; for the individual poller also the failure toast) is         *)
(* executed only by the step that processes a successful response of that  *)
(* run reporting a terminal job: a run none of whose responses is terminal *)
(* never completes, whatever changes, no-changes and failed queries it     *)
(* sees.                                                                   *)
(***************************************************************************)
C18_NoCompleteWithoutTerminal ==
    [][(Completes(calls') \/ nComplete' # nComplete
          \/ (reloadPending' /\ ~reloadPending))
          => /\ lastEvent'.op \in {"progress", "status"}
             /\ lastEvent'.data.is_complete
             /\ lastEvent'.data.status \in TerminalStatuses
             /\ \A r \in Runs :
                   r # lastEvent'.run => nComplete'[r] = nComplete[r]]_vars

\* a run has seen changes, and all the requests of the page life, while the
\* job never became terminal: it has not completed
C18_Witness ==
    /\ run = 1 /\ kind[1] = "checkProgress"
    /\ sent = WidePolls /\ inflight = <<>>
    /\ job.status = "processing"
    /\ nUpdate[1] = CountCap
    /\ nComplete[1] = 0
    /\ ~reloadPending
    /\ lastEvent.op = "progressFailed"

(***************************************************************************)
(* C19: once the job is terminal while the poll loop is running (and a     *)
(* further request can still be issued within the bounds), the loop        *)
(* eventually executes the completion action and is left with no timer     *)
(* scheduled, by its own clearInterval, before the page reloads.           *)
(***************************************************************************)
C19_EventuallyCompletes ==
    (job.status \in TerminalStatuses /\ PollActive /\ sent < LivePolls)
        ~> (nComplete[1] > 0 /\ timers = {} /\ page = "ready")

\* the job became terminal during an escalated run, and the run has
\* completed and cancelled its timer
C19_Witness ==
    /\ ProgressOk
    /\ lastEvent.data.is_complete
    /\ firstResp[1] = "other"
    /\ nComplete[1] = 1
    /\ timers = {} /\ page = "ready"
    /\ calls = <<"complete">>
    /\ currentPollInterval = Interval3

(***************************************************************************)
(* C20: a successful response reporting status = failed is terminal: after *)
(* the step that processes it no timer is live and the failure has been    *)
(* shown with its error message (not the message of a successful           *)
(* completion); no further query is issued by a timer.                     *)
(***************************************************************************)
C20_FailedIsSurfaced ==
    (lastEvent.op \in {"progress", "status"} /\ lastEvent.data.status = "failed")
        => /\ timers = {}
           /\ NumCalls(calls, "showError") = 1
           /\ overlay.msg # "complete"

C22_SupersededRunIsIsolated ==
    [][(lastEvent'.op \in {"progress", "status"} /\ lastEvent'.run < run)
          => UNCHANGED <<timers, pollInterval, lastStateHash, noChangeCount,
                         currentPollInterval>>]_vars

(***************************************************************************)
(* C23: startIndividualPolling issues one status query at once and         *)
(* schedules a 2000 ms timer whose ticks issue a query whether or not      *)
(* earlier ones have resolved; a response that failed or is not complete   *)
(* changes nothing; a complete response cancels the timer behind           *)
(* pollInterval and, when the status is not failed, shows the completion   *)
(* message and schedules the page reload, when it is failed hides the      *)
(* overlay and schedules no reload.                                        *)
(***************************************************************************)
C23_BasicPoller ==
    /\ [](\A t \in timers :
             t.fn = "checkStatus"
                => /\ t.period = 2000
                   /\ (page = "ready" /\ CanSend) => ENABLED Tick(t))
    /\ [][lastEvent'.op = "startIndividualPolling"
             => /\ inflight' = Append(inflight, inflight'[Len(inflight')])
                /\ inflight'[Len(inflight')].fn = "checkStatus"
                /\ timers' = {[h |-> pollInterval', fn |-> "checkStatus",
                               run |-> run', period |-> 2000]}]_vars
    /\ [][(lastEvent'.op = "statusFailed"
              \/ (lastEvent'.op = "status" /\ ~lastEvent'.data.is_complete))
             => UNCHANGED <<timers, pollInterval, overlay, reloadPending>>]_vars
    /\ [][(lastEvent'.op = "status" /\ lastEvent'.data.is_complete)
             => /\ \A t \in timers' : t.h # pollInterval
                /\ timers' \subseteq timers
                /\ IF lastEvent'.data.status = "failed"
                   THEN /\ overlay'.hidden
                        /\ reloadPending' = reloadPending
                   ELSE /\ overlay'.msg = "complete"
                        /\ reloadPending']_vars

\* the certificate failed: a later one of several overlapping status
\* queries brought the answer, the timer is gone, the overlay hidden and no
\* reload is pending
C23_Witness ==
    /\ lastEvent.op = "status"
    /\ lastEvent.data.status = "failed"
    /\ calls = <<"showError", "individualComplete">>
    /\ timers = {}
    /\ overlay.hidden
    /\ ~reloadPending
    /\ sent >= 3
    /\ inflight # <<>>

(***************************************************************************)
(* C24: every startPolling call begins a fresh session: right after it     *)
(* lastStateHash is null, noChangeCount 0, currentPollInterval 1000 and    *)
(* exactly one timer is live, the new one, at 1000 ms, whatever the        *)
(* previous run left behind (an escalated interval, a stored hash, a       *)
(* cancelled or a running timer).                                          *)
(***************************************************************************)
C24_StartIsFresh ==
    [][lastEvent'.op = "startPolling"
          => /\ lastStateHash' = NULL
             /\ noChangeCount' = 0
             /\ currentPollInterval' = 1000
             /\ timers' = {[h |-> pollInterval', fn |-> "checkProgress",
                            run |-> run', period |-> 1000]}
             /\ pollInterval' # NULL]_vars

\* startPolling has just been called a second time after the first run had
\* issued four requests, all resolved, and had not completed
C24_Witness ==
    /\ lastEvent.op = "startPolling"
    /\ run = 2
    /\ sent = 5
    /\ Len(inflight) = 1
    /\ firstResp[1] = "other"
    /\ nComplete[1] = 0
    /\ lastStateHash = NULL /\ noChangeCount = 0 /\ currentPollInterval = 1000

\* the interval the ladder prescribes for a streak
LadderOf(n) ==
    IF n < 3 THEN 1000 ELSE IF n < 5 THEN 2000 ELSE IF n < 10 THEN 3000 ELSE 5000

(***************************************************************************)
(* C25: in every reachable state currentPollInterval is determined by      *)
(* noChangeCount alone: 1000 below 3, 2000 from 3 to 4, 3000 from 5 to 9,  *)
(* 5000 from 10 on.                                                        *)
(***************************************************************************)
C25_IntervalIsFunctionOfStreak ==
    currentPollInterval = LadderOf(noChangeCount)

\* a response without change inside a rung: the streak grew from 6 to 7
\* and the interval stayed at 3000 without a reschedule
C25_Witness ==
    /\ ProgressOk
    /\ noChangeCount = 7
    /\ currentPollInterval = 3000
    /\ calls = <<>>

(***************************************************************************)
(* C26: after every successfully processed get_progress response           *)
(* lastStateHash is the state_hash of that response, the most recently     *)
(* resolved one, in whatever order the requests were sent.                 *)
(***************************************************************************)
C26_LastResolvedWins ==
    ProgressOk => lastStateHash = lastEvent.data.state_hash

\* a response has been processed while a request of the same run sent
\* before it (it carries a smaller progress) is still in flight
C26_Witness ==
    /\ ProgressOk
    /\ inflight # <<>>
    /\ inflight[1].fn = "checkProgress"
    /\ inflight[1].run = lastEvent.run
    /\ inflight[1].data.progress < lastEvent.data.progress
    /\ inflight[1].data.state_hash # lastEvent.data.state_hash
    /\ lastStateHash = lastEvent.data.state_hash

(***************************************************************************)
(* C27: at most one interval timer is live at any time, and it is the one  *)
(* pollInterval refers to: every setInterval of startPolling,              *)
(* startIndividualPolling and the response handler follows a clearInterval *)
(* of the handle in pollInterval.                                          *)
(***************************************************************************)
C27_AtMostOneTimer ==
    /\ Cardinality(timers) <= 1
    /\ \A t \in timers : t.h = pollInterval

\* a late response of the bulk loop, superseded by startIndividualPolling,
\* has escalated the interval: it cancelled the individual poller's timer
\* and created its own, the only one live
C27_Witness ==
    /\ ProgressOk
    /\ kind[2] = "checkStatus"
    /\ lastEvent.run = 1
    /\ calls = <<"setInterval">>
    /\ Cardinality(timers) = 1
    /\ \A t \in timers : t.fn = "checkProgress" /\ t.h = pollInterval

(***************************************************************************)
(* C28: once a run of the adaptive poller has processed a terminal         *)
(* response, no timer of that run is live any more (so that no further     *)
(* get_progress query is issued for it), whatever responses that were in   *)
(* flight resolve afterwards.                                              *)
(***************************************************************************)
C28_NoTimerAfterTerminal ==
    \A t \in timers : t.fn = "checkProgress" => nComplete[t.run] = 0


(***************************************************************************)
(* The variant formset of the template form (DOMContentLoaded script of    *)
(* the template page).                                                     *)
(***************************************************************************)
\* click on #add-variante: a new form with the current counter as prefix is
\* inserted, the counter and TOTAL_FORMS are incremented, and
\* attachRemoveListeners() adds one more click listener to every
\* .remove-variante button of the document
AddVariante ==
    /\ adds < MaxAdds
    /\ LET newForm == [id |-> initialForms + adds + 1, prefix |-> formIdx,
                       isNew |-> TRUE, listeners |-> 0, deleted |-> FALSE]
       IN  forms' = attachRemoveListeners(forms \cup {newForm})
    /\ formIdx' = formIdx + 1
    /\ totalForms' = String(formIdx + 1)
    /\ adds' = adds + 1
    /\ UNCHANGED <<initialForms, pollVars, qrVars>>

\* the else branch of one remove listener, for a form without DELETE
\* checkbox: formItem.remove() (nothing to do when already detached),
\* formIdx--
RemoveNewOnce(idx) == idx - 1

\* a click runs every listener of the button, in the order they were added
RECURSIVE RemoveNewAll(_, _)
RemoveNewAll(k, idx) ==
    IF k = 0 THEN idx ELSE RemoveNewAll(k - 1, RemoveNewOnce(idx))

\* click on the .remove-variante button of a visible form
RemoveVariante(f) ==
    /\ f \in forms
    /\ ~f.deleted
    /\ IF f.isNew
       THEN /\ forms' = forms \ {f}
            /\ formIdx' = RemoveNewAll(f.listeners, formIdx)
            /\ totalForms' = String(formIdx')
       ELSE /\ forms' = (forms \ {f}) \cup {[f EXCEPT !.deleted = TRUE]}
            /\ UNCHANGED <<formIdx, totalForms>>
    /\ UNCHANGED <<initialForms, adds, pollVars, qrVars>>

InitFormset ==
    /\ PollInit
    /\ \E n \in 0..MaxExisting : FormsetInit(n)
    /\ QrInit(FALSE)

NextFormset ==
    \/ AddVariante
    \/ \E f \in forms : RemoveVariante(f)

SpecFormset == InitFormset /\ [][NextFormset]_vars

NewFormsPresent == {f \in forms : f.isNew}

\* C29: after any sequence of add and remove clicks TOTAL_FORMS is its
\* initial value plus the number of added forms still present, and the
\* removal of an added form lowers the counter by exactly 1
C29_TotalFormsCountsForms ==
    /\ [](parseInt(totalForms) = initialForms + Cardinality(NewFormsPresent))
    /\ [][Cardinality(NewFormsPresent') < Cardinality(NewFormsPresent)
            => formIdx' = formIdx - 1]_vars


(***************************************************************************)
(* The QR-security toggle of the event page.                               *)
(***************************************************************************)
\* the user flips #toggleQrInput; its 'change' listener toggleQrSeguridad
\* writes the status text from the new checkbox state and posts
\* action=toggle_qr, incluir_qr=<new state>; the continuation keeps isChecked
toggleQrSeguridad ==
    /\ page = "ready"
    /\ toggles < MaxToggles
    /\ toggles' = toggles + 1
    /\ qrChecked' = ~qrChecked
    /\ qrText' = StatusText(qrChecked')
    /\ qrRequests' = Append(qrRequests, [isChecked |-> qrChecked'])
    /\ UNCHANGED <<qrServer, qrToast, pollVars, formVars>>

\* the server stores the posted value and answers success: true
ToggleStored(stored, isChecked) == isChecked

\* the continuation of one toggle_qr request:
\*   "ok":        data.success -> a toast, nothing else
\*   "nosuccess": data.success false -> toast, checkbox and text := !isChecked
\*   "error":     fetch rejects / res.json() throws -> .catch: the same revert
ToggleHandler(req, outcome) ==
    IF outcome = "ok"
    THEN /\ qrToast' = "SEGURIDAD QR ACTUALIZADA"
         /\ UNCHANGED <<qrChecked, qrText>>
    ELSE /\ qrToast' = IF outcome = "nosuccess"
                       THEN "ERROR AL ACTUALIZAR" ELSE "ERROR DE CONEXION"
         /\ qrChecked' = ~req.isChecked
         /\ qrText' = StatusText(~req.isChecked)

ResolveToggle(i, outcome) ==
    /\ page = "ready"
    /\ i \in 1..Len(qrRequests)
    /\ qrRequests' = RemoveAt(qrRequests, i)
    /\ qrServer' = IF outcome = "ok"
                   THEN ToggleStored(qrServer, qrRequests[i].isChecked)
                   ELSE qrServer
    /\ ToggleHandler(qrRequests[i], outcome)
    /\ UNCHANGED <<toggles, pollVars, formVars>>

InitQr ==
    /\ PollInit
    /\ FormsetInit(0)
    /\ \E b \in BOOLEAN : QrInit(b)

NextQr ==
    \/ DOMContentLoaded(FALSE)
    \/ toggleQrSeguridad
    \/ \E i \in 1..Len(qrRequests), o \in Outcomes : ResolveToggle(i, o)

SpecQr == InitQr /\ [][NextQr]_vars

\* C30: once every toggle request has resolved, the checkbox, the status
\* text and the value stored by the server agree, whatever the toggles and
\* whatever the mix and the resolution order of succeeding and failing
\* requests
C30_ToggleSettlesOnServerValue ==
    qrRequests = <<>> =>
        /\ qrText = StatusText(qrChecked)
        /\ qrChecked = qrServer

====
